---- MODULE Spec2Model ----
(***************************************************************************)
(* Model of Metro's `require.context` support:                             *)
(*   lib/contextModule.js     getContextModuleId, toHash,                  *)
(*                            removeContextQueryParam,                     *)
(*                            appendContextQueryParam, fileMatchesContext  *)
(*   lib/transformHelpers.js  createFileMap, the context module templates, *)
(*                            getTransformContextFn (with its moduleCache) *)
(*                                                                         *)
(* A JavaScript string is a sequence of one-character strings, so that     *)
(* startsWith, includes, split, join and path.relative are computed the    *)
(* way the code computes them.                                             *)
(***************************************************************************)
EXTENDS Integers, Sequences, FiniteSets, TLC

VARIABLES
  fs,           \* the files of the project tree (absolute paths)
  moduleCache,  \* getTransformContextFn's `moduleCache`: modulePath -> files
  calls,        \* the invocations of the transform-context function in flight
  probe         \* inputs and result of the pure function under examination

vars == <<fs, moduleCache, calls, probe>>

-----------------------------------------------------------------------------
(* JavaScript strings                                                      *)

\* String.prototype.startsWith
StartsWith(s, prefix) ==
  /\ Len(prefix) <= Len(s)
  /\ \A k \in 1..Len(prefix) : s[k] = prefix[k]

\* the 1-based position of the first occurrence of `needle` at or after
\* `from`, 0 when there is none (String.prototype.indexOf, shifted by one)
RECURSIVE IndexOfFrom(_, _, _)
IndexOfFrom(s, needle, from) ==
  IF from + Len(needle) - 1 > Len(s) THEN 0
  ELSE IF \A k \in 1..Len(needle) : s[from + k - 1] = needle[k] THEN from
  ELSE IndexOfFrom(s, needle, from + 1)

\* String.prototype.includes
Includes(s, needle) == IndexOfFrom(s, needle, 1) # 0

\* String.prototype.split with a non-empty separator
RECURSIVE Split(_, _)
Split(s, sep) ==
  LET i == IndexOfFrom(s, sep, 1)
  IN IF i = 0 THEN <<s>>
     ELSE <<SubSeq(s, 1, i - 1)>> \o Split(SubSeq(s, i + Len(sep), Len(s)), sep)

\* Array.prototype.join
RECURSIVE Join(_, _)
Join(parts, sep) ==
  IF Len(parts) = 0 THEN <<>>
  ELSE IF Len(parts) = 1 THEN parts[1]
  ELSE parts[1] \o sep \o Join(Tail(parts), sep)

\* the elements of an array, as a set
SetOf(s) == {s[i] : i \in 1..Len(s)}

\* Array.prototype.includes
ArrayIncludes(arr, x) == x \in SetOf(arr)

-----------------------------------------------------------------------------
(* node's `path` module, posix flavour                                     *)

\* path.sep
sep == <<"/">>

\* path.isAbsolute
isAbsolute(p) == Len(p) > 0 /\ p[1] = "/"

\* the segments of an absolute, normalised path ("/a/b" -> <<"a", "b">>)
Segments(p) ==
  LET parts == Split(p, sep)
  IN SelectSeq(parts, LAMBDA x : x # <<>>)

\* length of the longest common prefix of two arrays of segments
RECURSIVE CommonLen(_, _)
CommonLen(a, b) ==
  IF Len(a) = 0 \/ Len(b) = 0 \/ a[1] # b[1] THEN 0
  ELSE 1 + CommonLen(Tail(a), Tail(b))

\* path.relative(from, to) for absolute, normalised paths: one ".." for every
\* segment of `from` behind the common prefix, then the rest of `to`
relative(from, to) ==
  LET f == Segments(from)
      t == Segments(to)
      k == CommonLen(f, t)
      ups == [i \in 1..(Len(f) - k) |-> <<".", ".">>]
      rest == SubSeq(t, k + 1, Len(t))
  IN Join(ups \o rest, sep)

-----------------------------------------------------------------------------
(* RegExp: `new RegExp(pattern, flags)`, `.toString()` and `.test()`.       *)
(* The pattern language covered is: literal characters, `\c` (an escaped    *)
(* character), `.`, `^`, `$`, character classes `[...]` and `[^...]`, and   *)
(* the quantifier `*`. The flags covered are those that leave `test`        *)
(* stateless (no `g`, no `y`).                                              *)

\* the flag letters the engine knows
FlagLetters == {"d", "g", "i", "m", "s", "u", "y"}

\* position of the `]` that closes the class opened before position j, or 0
RECURSIVE ClassEnd(_, _)
ClassEnd(p, j) ==
  IF j > Len(p) THEN 0
  ELSE IF p[j] = "\\" THEN ClassEnd(p, j + 2)
  ELSE IF p[j] = "]" THEN j
  ELSE ClassEnd(p, j + 1)

\* the characters named between positions j and e of a class body
RECURSIVE ClassChars(_, _, _)
ClassChars(p, j, e) ==
  IF j > e THEN {}
  ELSE IF p[j] = "\\" /\ j < e THEN {p[j + 1]} \cup ClassChars(p, j + 2, e)
  ELSE {p[j]} \cup ClassChars(p, j + 1, e)

\* the atom that starts at position i: [ok, kind, chars, neg, next]
AtomAt(p, i) ==
  LET c == p[i]
      bad == [ok |-> FALSE, kind |-> "lit", chars |-> {}, neg |-> FALSE, next |-> i + 1]
  IN IF c = "\\" THEN
       IF i = Len(p) THEN bad
       ELSE [ok |-> TRUE, kind |-> "lit", chars |-> {p[i + 1]}, neg |-> FALSE, next |-> i + 2]
     ELSE IF c = "[" THEN
       LET neg == i < Len(p) /\ p[i + 1] = "^"
           from == IF neg THEN i + 2 ELSE i + 1
           e == ClassEnd(p, from)
       IN IF e = 0 THEN bad
          ELSE [ok |-> TRUE, kind |-> "set", chars |-> ClassChars(p, from, e - 1),
                neg |-> neg, next |-> e + 1]
     ELSE IF c = "*" THEN bad   \* nothing to repeat
     ELSE IF c = "." THEN
       [ok |-> TRUE, kind |-> "set", chars |-> {}, neg |-> TRUE, next |-> i + 1]
     ELSE IF c = "^" THEN
       [ok |-> TRUE, kind |-> "bol", chars |-> {}, neg |-> FALSE, next |-> i + 1]
     ELSE IF c = "$" THEN
       [ok |-> TRUE, kind |-> "eol", chars |-> {}, neg |-> FALSE, next |-> i + 1]
     ELSE [ok |-> TRUE, kind |-> "lit", chars |-> {c}, neg |-> FALSE, next |-> i + 1]

\* the pattern from position i on, as [ok, atoms]; an atom followed by `*`
\* is starred, and an assertion cannot be repeated
RECURSIVE ParseFrom(_, _)
ParseFrom(p, i) ==
  IF i > Len(p) THEN [ok |-> TRUE, atoms |-> <<>>]
  ELSE
    LET a == AtomAt(p, i)
        star == a.ok /\ a.next <= Len(p) /\ p[a.next] = "*"
        rest == ParseFrom(p, IF star THEN a.next + 1 ELSE a.next)
        atom == [kind |-> a.kind, chars |-> a.chars, neg |-> a.neg, star |-> star]
    IN IF ~a.ok \/ (star /\ a.kind \in {"bol", "eol"}) \/ ~rest.ok
       THEN [ok |-> FALSE, atoms |-> <<>>]
       ELSE [ok |-> TRUE, atoms |-> <<atom>> \o rest.atoms]

\* the flags are known letters, each at most once
FlagsValid(flags) ==
  /\ \A i \in 1..Len(flags) : flags[i] \in FlagLetters
  /\ \A i, j \in 1..Len(flags) : flags[i] = flags[j] => i = j

\* `new RegExp(pattern, flags)` does not throw a SyntaxError
RegExpCompiles(filter) ==
  ParseFrom(filter.pattern, 1).ok /\ FlagsValid(filter.flags)

\* RegExp.prototype.source: the pattern with every `/` outside a character
\* class escaped, and "(?:)" for the empty pattern
RECURSIVE EscapeSource(_, _, _)
EscapeSource(p, i, inClass) ==
  IF i > Len(p) THEN <<>>
  ELSE IF p[i] = "\\" /\ i < Len(p)
    THEN <<p[i], p[i + 1]>> \o EscapeSource(p, i + 2, inClass)
  ELSE IF p[i] = "/" /\ ~inClass
    THEN <<"\\", "/">> \o EscapeSource(p, i + 1, inClass)
  ELSE IF p[i] = "[" THEN <<p[i]>> \o EscapeSource(p, i + 1, TRUE)
  ELSE IF p[i] = "]" THEN <<p[i]>> \o EscapeSource(p, i + 1, FALSE)
  ELSE <<p[i]>> \o EscapeSource(p, i + 1, inClass)

RegExpSource(pattern) ==
  IF pattern = <<>> THEN <<"(", "?", ":", ")">> ELSE EscapeSource(pattern, 1, FALSE)

\* RegExp.prototype.toString: "/" + source + "/" + flags
RegExpToString(filter) ==
  <<"/">> \o RegExpSource(filter.pattern) \o <<"/">> \o filter.flags

\* does the atom accept the character
Accepts(atom, c) == (c \in atom.chars) # atom.neg

\* do the atoms from the k-th on match `s` from position j on
RECURSIVE MatchAt(_, _, _, _)
MatchAt(atoms, k, s, j) ==
  IF k > Len(atoms) THEN TRUE
  ELSE
    LET a == atoms[k]
    IN IF a.kind = "bol" THEN j = 1 /\ MatchAt(atoms, k + 1, s, j)
       ELSE IF a.kind = "eol" THEN j = Len(s) + 1 /\ MatchAt(atoms, k + 1, s, j)
       ELSE IF a.star THEN
         \/ MatchAt(atoms, k + 1, s, j)
         \/ j <= Len(s) /\ Accepts(a, s[j]) /\ MatchAt(atoms, k, s, j + 1)
       ELSE j <= Len(s) /\ Accepts(a, s[j]) /\ MatchAt(atoms, k + 1, s, j + 1)

\* RegExp.prototype.test, for a regular expression without `g` and `y`
RegExpTest(filter, s) ==
  LET atoms == ParseFrom(filter.pattern, 1).atoms
  IN \E j \in 1..(Len(s) + 1) : MatchAt(atoms, 1, s, j)

-----------------------------------------------------------------------------
(* lib/contextModule.js                                                    *)

\* the characters that occur in the strings of the model, for toHash
CharTable ==
  << "/", ".", " ", "?", "=", "*", "^", "$", "[", "]", "\\", "(", ")", ":",
     "a", "b", "c", "d", "e", "f", "g", "h", "i", "l", "m", "n", "o", "r",
     "s", "t", "u", "v", "x", "y", "z", "-",
     "0", "1", "2", "3", "4", "5", "6", "7", "8", "9" >>

CharCode(c) == CHOOSE i \in 1..Len(CharTable) : CharTable[i] = c

HexDigits ==
  <<"0", "1", "2", "3", "4", "5", "6", "7", "8", "9", "a", "b", "c", "d", "e", "f">>

\* number of hexadecimal digits of a digest of the model (sha1 has 40)
HashLen == 2

RECURSIVE Pow(_, _)
Pow(b, n) == IF n = 0 THEN 1 ELSE b * Pow(b, n - 1)

RECURSIVE HashValue(_, _)
HashValue(value, acc) ==
  IF value = <<>> THEN acc
  ELSE HashValue(Tail(value), (acc * 31 + CharCode(Head(value))) % Pow(16, HashLen))

\* toHash: a deterministic digest of fixed length, in lower-case hexadecimal
\* (sha1 is stood for by a short polynomial digest of the characters)
toHash(value) ==
  LET h == HashValue(value, 7)
  IN [i \in 1..HashLen |-> HexDigits[((h \div Pow(16, HashLen - i)) % 16) + 1]]

\* the words the code writes
Recursive == <<"r", "e", "c", "u", "r", "s", "i", "v", "e">>
CtxMarker == <<"?", "c", "t", "x", "=">>
ModeSync == <<"s", "y", "n", "c">>
ModeEager == <<"e", "a", "g", "e", "r">>
ModeLazy == <<"l", "a", "z", "y">>
ModeLazyOnce == <<"l", "a", "z", "y", "-", "o", "n", "c", "e">>

\* getContextModuleId: the fields that are not empty, joined by a space
getContextModuleId(modulePath, context) ==
  LET fields == << modulePath,
                   context.mode,
                   IF context.recursive THEN Recursive ELSE <<>>,
                   RegExpToString(context.filter) >>
  IN Join(SelectSeq(fields, LAMBDA x : x # <<>>), <<" ">>)

\* mutant of removeContextQueryParam: the path is cut at the first "?"
removeContextQueryParamAtQuestionMark(virtualFilePath) ==
  Split(virtualFilePath, <<"?">>)[1]

\* removeContextQueryParam: the part before the first "?ctx="
removeContextQueryParam(virtualFilePath) ==
  Split(virtualFilePath, CtxMarker)[1]

\* appendContextQueryParam
appendContextQueryParam(filePath, context) ==
  filePath \o CtxMarker \o toHash(getContextModuleId(filePath, context))

\* mutant of fileMatchesContext: files outside the root are not ignored
fileMatchesContextAnywhere(inputPath, testPath, context) ==
  LET filePath == relative(inputPath, testPath)
  IN IF \/ (~context.recursive /\ Includes(filePath, sep))
        \/ ~RegExpTest(context.filter, <<".">> \o sep \o filePath)
     THEN FALSE
     ELSE TRUE

\* fileMatchesContext(inputPath, testPath, {recursive, filter})
fileMatchesContext(inputPath, testPath, context) ==
  LET filePath == relative(inputPath, testPath)
  IN IF \/ ~(/\ filePath # <<>>
             /\ ~StartsWith(filePath, <<".", ".">>)
             /\ ~isAbsolute(filePath))
        \/ (~context.recursive /\ Includes(filePath, sep))
        \/ ~RegExpTest(context.filter, <<".">> \o sep \o filePath)
     THEN FALSE
     ELSE TRUE

-----------------------------------------------------------------------------
(* lib/transformHelpers.js: the generated context module                   *)
(* The source text of a generated module is kept as the parts the          *)
(* templates interpolate: which template, the property table, the body of  *)
(* the lookup function and the id.                                         *)

\* the bodies of `metroContext(request)` that getContextModuleTemplate passes
BodyDirect == "return map[request];"
BodyPromise == "return Promise.resolve().then(() => map[request]);"
BodyThrowNotFound == "let e = new Error(...); e.code = 'MODULE_NOT_FOUND'; throw e;"

\* the two `keys` functions the templates write
KeysNone == "() => ([])"
KeysOfMap == "return Object.keys(map);"

\* createFileMap: one `key: { enumerable: true, get() { return <expr>; } }`
\* per file, in the order of `files`.  The callback `processModule` is the
\* closure `moduleId => importSyntax(JSON.stringify(moduleId))`, carried here
\* by the import syntax it closes over.
processModule(importSyntax, moduleId) == [call |-> importSyntax, arg |-> moduleId]

createFileMap(modulePath, files, importSyntax) ==
  [i \in 1..Len(files) |->
     LET filePath == relative(modulePath, files[i])
         key == IF ~StartsWith(filePath, <<".">>)
                THEN <<".">> \o sep \o filePath
                ELSE filePath
     IN [key |-> key, enumerable |-> TRUE,
         get |-> processModule(importSyntax, files[i])]]

getEmptyContextModuleTemplate(modulePath, id) ==
  [ fn |-> "metroEmptyContext",
    map |-> <<>>,
    body |-> BodyThrowNotFound,
    keys |-> KeysNone,
    id |-> id ]

getLoadableContextModuleTemplate(modulePath, files, id, importSyntax, getContextTemplate) ==
  [ fn |-> "metroContext",
    map |-> createFileMap(modulePath, files, importSyntax),
    body |-> getContextTemplate,
    keys |-> KeysOfMap,
    id |-> id ]

\* what a call that throws yields
Thrown(message) == [threw |-> TRUE, error |-> message, value |-> <<>>]
Returned(v) == [threw |-> FALSE, error |-> "", value |-> v]

\* mutant of getContextModuleTemplate: no template of its own for no files
getContextModuleTemplateNoEmpty(mode, modulePath, files, id) ==
  IF mode = ModeEager THEN
    Returned(getLoadableContextModuleTemplate(modulePath, files, id, "require", BodyPromise))
  ELSE IF mode = ModeSync THEN
    Returned(getLoadableContextModuleTemplate(modulePath, files, id, "require", BodyDirect))
  ELSE IF mode \in {ModeLazy, ModeLazyOnce} THEN
    Returned(getLoadableContextModuleTemplate(modulePath, files, id, "import", BodyDirect))
  ELSE Thrown("Metro context mode is unimplemented")

\* mutant of getContextModuleTemplate: the lazy modes reference their files
\* with `require`
getContextModuleTemplateAllRequire(mode, modulePath, files, id) ==
  IF Len(files) = 0 THEN Returned(getEmptyContextModuleTemplate(modulePath, id))
  ELSE IF mode = ModeEager THEN
    Returned(getLoadableContextModuleTemplate(modulePath, files, id, "require", BodyPromise))
  ELSE IF mode = ModeSync THEN
    Returned(getLoadableContextModuleTemplate(modulePath, files, id, "require", BodyDirect))
  ELSE IF mode \in {ModeLazy, ModeLazyOnce} THEN
    Returned(getLoadableContextModuleTemplate(modulePath, files, id, "require", BodyDirect))
  ELSE Thrown("Metro context mode is unimplemented")

\* getContextModuleTemplate(mode, modulePath, files, id)
getContextModuleTemplate(mode, modulePath, files, id) ==
  IF Len(files) = 0 THEN Returned(getEmptyContextModuleTemplate(modulePath, id))
  ELSE IF mode = ModeEager THEN
    Returned(getLoadableContextModuleTemplate(modulePath, files, id, "require", BodyPromise))
  ELSE IF mode = ModeSync THEN
    Returned(getLoadableContextModuleTemplate(modulePath, files, id, "require", BodyDirect))
  ELSE IF mode \in {ModeLazy, ModeLazyOnce} THEN
    Returned(getLoadableContextModuleTemplate(modulePath, files, id, "import", BodyDirect))
  ELSE Thrown("Metro context mode is unimplemented")

-----------------------------------------------------------------------------
(* The generated module at run time                                        *)

\* Object.defineProperties({}, {k1: d1, k2: d2, ...}) of an object literal:
\* a key written twice keeps its first position and its last descriptor
RECURSIVE PropertyKeys(_)
PropertyKeys(map) ==
  IF map = <<>> THEN <<>>
  ELSE LET front == PropertyKeys(SubSeq(map, 1, Len(map) - 1))
           k == map[Len(map)].key
       IN IF ArrayIncludes(front, k) THEN front ELSE Append(front, k)

\* the descriptor the table holds for `key`
Descriptor(map, key) ==
  map[CHOOSE i \in 1..Len(map) :
        map[i].key = key /\ \A j \in (i + 1)..Len(map) : map[j].key # key]

\* `context.keys()`
metroContextKeys(template) ==
  IF template.keys = KeysNone THEN <<>>
  ELSE SelectSeq(PropertyKeys(template.map),
                 LAMBDA k : Descriptor(template.map, k).enumerable)

\* mutant of MapGet: a present key is answered by the first getter of the table
MapGetFirst(map, request) ==
  IF ArrayIncludes(PropertyKeys(map), request)
  THEN [kind |-> "module", of |-> map[1].get]
  ELSE [kind |-> "undefined", of |-> [call |-> "", arg |-> <<>>]]

\* `map[request]`: the getter of the entry runs, or the value is undefined
MapGet(map, request) ==
  IF ArrayIncludes(PropertyKeys(map), request)
  THEN [kind |-> "module", of |-> Descriptor(map, request).get]
  ELSE [kind |-> "undefined", of |-> [call |-> "", arg |-> <<>>]]

\* `context(request)`: [threw, code, deferred, value]
metroContext(template, request) ==
  IF template.body = BodyThrowNotFound THEN
    [threw |-> TRUE, code |-> "MODULE_NOT_FOUND", deferred |-> FALSE,
     value |-> MapGet(<<>>, request)]
  ELSE
    [threw |-> FALSE, code |-> "", deferred |-> template.body = BodyPromise,
     value |-> MapGet(template.map, request)]

\* the reference expressions that run while `Object.defineProperties({}, {...})`
\* builds the table: those of the entries written as values; the expression
\* of an entry written as `get() { return <expr>; }` does not run
EvaluatedByDefine(map) ==
  LET values == SelectSeq([k \in 1..Len(map) |-> k],
                          LAMBDA k : "value" \in DOMAIN map[k])
  IN [j \in 1..Len(values) |-> map[values[j]].value.arg]

\* mutant of EvaluatedByRead: a read of the table runs every getter
EvaluatedByReadAll(map, request) ==
  [k \in 1..Len(map) |-> map[k].get.arg]

\* the reference expressions that run in `map[request]`: the getter of the
\* entry read, if there is one
EvaluatedByRead(map, request) ==
  IF ArrayIncludes(PropertyKeys(map), request)
  THEN <<Descriptor(map, request).get.arg>>
  ELSE <<>>

\* the call `context(request)` with the reference expression evaluated, when
\* the modules in `fails` throw while they load: `require` throws in the
\* getter, `import` returns a promise that rejects
\* [threw, code, deferred, rejected, value]
RunAccessor(o, fails) ==
  IF o.threw \/ o.value.kind = "undefined" THEN
    [threw |-> o.threw, code |-> o.code, deferred |-> o.deferred,
     rejected |-> FALSE, value |-> o.value]
  ELSE
    [threw |-> o.value.of.arg \in fails /\ o.value.of.call = "require" /\ ~o.deferred,
     code |-> o.code,
     deferred |-> o.deferred \/ o.value.of.call = "import",
     rejected |-> o.value.of.arg \in fails
                    /\ (o.deferred \/ o.value.of.call = "import"),
     value |-> o.value]

-----------------------------------------------------------------------------
(* lib/transformHelpers.js: getTransformContextFn                          *)

\* a request without `delta`
NoDelta == [present |-> FALSE, addedFiles |-> <<>>, deletedFiles |-> {}]

\* `moduleCache[modulePath]` of a path that was never stored
NotCached == [present |-> FALSE, files |-> <<>>]

\* the property of `moduleCache` a request reads and writes
CacheKey(modulePath, requireContext) == modulePath

\* the path handed to bundler.transformFile
TransformPath(modulePath, requireContext) == modulePath

\* the iteration order of the file system
FileOrder ==
  << <<"/", "a", "/", "f">>,
     <<"/", "a", "/", "g">>,
     <<"/", "a", "/", "s", "/", "f">> >>

\* graph.matchFilesWithContext(root, {recursive, filter}): every file of the
\* tree that passes the matcher, in the tree's order
matchFilesWithContext(tree, root, context) ==
  SelectSeq(FileOrder, LAMBDA f : f \in tree /\ fileMatchesContext(root, f, context))

\* mutant of RemoveDeleted: the deleted files stay in the list
RemoveDeletedKeepsAll(files, deletedFiles) == files

\* "Remove files from the cache."
RemoveDeleted(files, deletedFiles) ==
  IF Cardinality(deletedFiles) # 0
  THEN SelectSeq(files, LAMBDA filePath : filePath \notin deletedFiles)
  ELSE files

\* mutant of AddAdded: a new file is put in front of the list (unshift)
RECURSIVE AddAddedInFront(_, _, _, _, _)
AddAddedInFront(files, addedFiles, k, modulePath, context) ==
  IF k > Len(addedFiles) THEN files
  ELSE
    LET filePath == addedFiles[k]
        pushed == IF /\ ~ArrayIncludes(files, filePath)
                     /\ fileMatchesContext(modulePath, filePath, context)
                  THEN <<filePath>> \o files
                  ELSE files
    IN AddAddedInFront(pushed, addedFiles, k + 1, modulePath, context)

\* "Add files to the cache.": addedFiles.forEach, from the k-th added file on
RECURSIVE AddAdded(_, _, _, _, _)
AddAdded(files, addedFiles, k, modulePath, context) ==
  IF k > Len(addedFiles) THEN files
  ELSE
    LET filePath == addedFiles[k]
        pushed == IF /\ ~ArrayIncludes(files, filePath)
                     /\ fileMatchesContext(modulePath, filePath, context)
                  THEN Append(files, filePath)
                  ELSE files
    IN AddAdded(pushed, addedFiles, k + 1, modulePath, context)

\* mutant of UsesCache: an empty stored list counts as no stored list
UsesCacheIfNotEmpty(cached, requireContext) ==
  cached.present /\ Len(cached.files) > 0 /\ requireContext.delta.present

\* is the list taken from the cache and patched (rather than scanned)
UsesCache(cached, requireContext) ==
  cached.present /\ requireContext.delta.present

\* the function from the template on: the generation threw, or the source
\* text goes to bundler.transformFile
\* [threw, error, scanned, stored, files, template, transformPath]
TransformTemplate(modulePath, requireContext, scanned, files, made) ==
  IF made.threw THEN
    [threw |-> TRUE, error |-> made.error, scanned |-> scanned, stored |-> TRUE,
     files |-> files, template |-> <<>>, transformPath |-> <<>>]
  ELSE
    [threw |-> FALSE, error |-> "", scanned |-> scanned, stored |-> TRUE,
     files |-> files, template |-> made.value,
     transformPath |-> TransformPath(modulePath, requireContext)]

\* the function from `moduleCache[modulePath] = files` on
StoreFiles(modulePath, requireContext, scanned, files) ==
  TransformTemplate(modulePath, requireContext, scanned, files,
    getContextModuleTemplate(requireContext.mode, modulePath, files,
                             getContextModuleId(modulePath, requireContext)))

\* mutant of ContextFiles: the additions are applied before the removals
ContextFilesAddFirst(modulePath, context, patching, cached, delta, tree) ==
  IF patching
  THEN RemoveDeleted(AddAdded(cached.files, delta.addedFiles, 1, modulePath, context),
                     delta.deletedFiles)
  ELSE matchFilesWithContext(tree, modulePath, context)

\* mutant of ContextFiles: the delta is applied to an empty list instead of
\* the stored one
ContextFilesForgetsStored(modulePath, context, patching, cached, delta, tree) ==
  IF patching
  THEN AddAdded(RemoveDeleted(<<>>, delta.deletedFiles),
                delta.addedFiles, 1, modulePath, context)
  ELSE matchFilesWithContext(tree, modulePath, context)

\* the files of the context: the stored list patched with the delta, or a
\* scan of the tree
ContextFiles(modulePath, context, patching, cached, delta, tree) ==
  IF patching
  THEN AddAdded(RemoveDeleted(cached.files, delta.deletedFiles),
                delta.addedFiles, 1, modulePath, context)
  ELSE matchFilesWithContext(tree, modulePath, context)

\* mutant of ResolveContext: a filter that does not compile matches as the
\* empty pattern does
ResolveContextNoCompile(modulePath, requireContext, cached, tree) ==
  StoreFiles(modulePath, requireContext, ~UsesCache(cached, requireContext),
    ContextFiles(modulePath,
                 [recursive |-> requireContext.recursive,
                  filter |-> requireContext.filter],
                 UsesCache(cached, requireContext), cached,
                 requireContext.delta, tree))

\* the body of the transform-context function between its two awaits
ResolveContext(modulePath, requireContext, cached, tree) ==
  IF ~RegExpCompiles(requireContext.filter) THEN
    [threw |-> TRUE, error |-> "SyntaxError", scanned |-> FALSE, stored |-> FALSE,
     files |-> <<>>, template |-> <<>>, transformPath |-> <<>>]
  ELSE
    StoreFiles(modulePath, requireContext, ~UsesCache(cached, requireContext),
      ContextFiles(modulePath,
                   [recursive |-> requireContext.recursive,
                    filter |-> requireContext.filter],
                   UsesCache(cached, requireContext), cached,
                   requireContext.delta, tree))

-----------------------------------------------------------------------------
(* The requests the model issues                                           *)

ModulePaths == {<<"/", "a">>, <<"/", "a", "/", "s">>}

Files == SetOf(FileOrder)

Filters ==
  { [pattern |-> <<"f">>, flags |-> <<>>],
    [pattern |-> <<".">>, flags |-> <<>>] }

Modes == {ModeSync, ModeLazy}

\* the arrays without repetition of at most n elements of S
RECURSIVE ArraysOf(_, _)
ArraysOf(S, n) ==
  IF n = 0 THEN {<<>>}
  ELSE LET shorter == ArraysOf(S, n - 1)
       IN shorter \cup
          UNION { {Append(a, x) : x \in S \ SetOf(a)} :
                    a \in {b \in shorter : Len(b) = n - 1} }

\* the deltas of at most `added` added and `deleted` deleted files
DeltasOf(added, deleted) ==
  {NoDelta} \cup
  { [present |-> TRUE, addedFiles |-> a, deletedFiles |-> d] :
      a \in ArraysOf(Files, added),
      d \in {x \in SUBSET Files : Cardinality(x) <= deleted} }

RequestsOf(filters, modes, deltas) ==
  { [recursive |-> r, filter |-> f, mode |-> m, delta |-> d] :
      r \in BOOLEAN, f \in filters, m \in modes, d \in deltas }

\* largest number of files in `delta.addedFiles` and in `delta.deletedFiles`
MaxAdded == 1
MaxDeleted == 1

Requests == RequestsOf(Filters, Modes, DeltasOf(MaxAdded, MaxDeleted))

-----------------------------------------------------------------------------
(* The transform-context function as a process: it awaits the dependency   *)
(* graph, runs ResolveContext, awaits bundler.transformFile and settles.   *)

CallIds == {1}

Idle == [pc |-> "idle"]

Init ==
  /\ fs \in SUBSET Files
  /\ moduleCache = [m \in ModulePaths |-> NotCached]
  /\ calls = [i \in CallIds |-> Idle]
  /\ probe = <<>>

\* history of a call: it has a stored list to patch, that list holds the
\* files a full scan of the tree returns before the delta is applied to the
\* tree, and the delta adds no file of the list and deletes only files of it
DeltaExact(cached, modulePath, requireContext) ==
  /\ cached.present
  /\ requireContext.delta.present
  /\ SetOf(requireContext.delta.addedFiles) \cap SetOf(cached.files) = {}
  /\ requireContext.delta.deletedFiles \subseteq SetOf(cached.files)
  /\ SetOf(cached.files) = SetOf(matchFilesWithContext(fs, modulePath, requireContext))

\* the graph calls transformContext(modulePath, requireContext); the delta it
\* passes tells the changes of the tree since the module was last resolved
Invoke(i, modulePath, requireContext) ==
  /\ calls[i].pc = "idle"
  /\ fs' = IF requireContext.delta.present
           THEN (fs \ requireContext.delta.deletedFiles)
                  \cup SetOf(requireContext.delta.addedFiles)
           ELSE fs
  /\ calls' = [calls EXCEPT ![i] =
       [pc |-> "awaitGraph", modulePath |-> modulePath,
        requireContext |-> requireContext,
        deltaExact |-> DeltaExact(moduleCache[CacheKey(modulePath, requireContext)],
                                  modulePath, requireContext)]]
  /\ UNCHANGED <<moduleCache, probe>>

\* `await bundler.getDependencyGraph()` returns and the function runs up to
\* `await bundler.transformFile(...)`, or throws
Resume(i) ==
  /\ calls[i].pc = "awaitGraph"
  /\ LET c == calls[i]
         key == CacheKey(c.modulePath, c.requireContext)
         r == ResolveContext(c.modulePath, c.requireContext, moduleCache[key], fs)
     IN /\ moduleCache' =
             IF r.stored
             THEN [moduleCache EXCEPT ![key] = [present |-> TRUE, files |-> r.files]]
             ELSE moduleCache
        /\ calls' = [calls EXCEPT ![i] =
             [pc |-> IF r.threw THEN "rejected" ELSE "awaitTransform",
              modulePath |-> c.modulePath, requireContext |-> c.requireContext,
              deltaExact |-> c.deltaExact, result |-> r]]
  /\ UNCHANGED <<fs, probe>>

\* the promise of the call settles
Settle(i) ==
  /\ calls[i].pc \in {"awaitTransform", "rejected"}
  /\ calls' = [calls EXCEPT ![i] = Idle]
  /\ UNCHANGED <<fs, moduleCache, probe>>

Next ==
  \E i \in CallIds :
    \/ \E m \in ModulePaths, rc \in Requests : Invoke(i, m, rc)
    \/ Resume(i)
    \/ Settle(i)

Spec == Init /\ [][Next]_vars

\* the same process, resolving with larger deltas and one mode
PatchMaxAdded == 2
PatchMaxDeleted == 1

PatchRequests == RequestsOf(Filters, {ModeSync}, DeltasOf(PatchMaxAdded, PatchMaxDeleted))

PatchNext ==
  \E i \in CallIds :
    \/ \E m \in ModulePaths, rc \in PatchRequests : Invoke(i, m, rc)
    \/ Resume(i)
    \/ Settle(i)

SpecPatch == Init /\ [][PatchNext]_vars

-----------------------------------------------------------------------------
(* Properties of the file list cache                                       *)

\* the step in which call i runs between its two awaits
Resumed(i) == calls[i].pc = "awaitGraph" /\ calls'[i].pc # "awaitGraph"

\* the call has run between its awaits and has stored a list
HasStored(c) == c.pc \in {"awaitTransform", "rejected"} /\ c.result.stored

\* position of x in the array (0 when absent)
PositionIn(arr, x) ==
  IF x \in SetOf(arr) THEN CHOOSE k \in 1..Len(arr) : arr[k] = x ELSE 0

\* C1: when the stored list holds the files a full scan returns and the
\* delta adds only files absent from it and deletes only files in it, the
\* list stored and used after the patch holds exactly the files that
\* matchFilesWithContext returns for the tree after the delta.
C1_IncrementalEquivalence ==
  \A i \in CallIds :
    LET c == calls[i]
    IN (HasStored(c) /\ c.deltaExact) =>
         /\ ~c.result.scanned
         /\ moduleCache[CacheKey(c.modulePath, c.requireContext)].files = c.result.files
         /\ SetOf(c.result.files)
              = SetOf(matchFilesWithContext(fs, c.modulePath, c.requireContext))

\* a patch that deleted a file, added a matching file and refused another
C1_Witness ==
  \E i \in CallIds :
    LET c == calls[i]
    IN /\ HasStored(c) /\ c.deltaExact
       /\ Len(c.requireContext.delta.addedFiles) = 2
       /\ c.requireContext.delta.deletedFiles # {}
       /\ Len(c.result.files) = 1
       /\ c.result.files[1] \in SetOf(c.requireContext.delta.addedFiles)

\* C2: a resolution changes the stored list of no context module whose
\* synthetic path differs from its own.
C2_BaselinesNotShared ==
  [][ \A i \in CallIds :
        Resumed(i) =>
          \A m \in ModulePaths, rc \in Requests :
            appendContextQueryParam(m, rc)
                # appendContextQueryParam(calls[i].modulePath, calls[i].requireContext)
              => moduleCache'[CacheKey(m, rc)] = moduleCache[CacheKey(m, rc)] ]_vars

\* C3: the bulk matcher is called, and its result stored, exactly when no
\* list is stored for the module path or the request has no delta; otherwise
\* the result holds only files of the stored list and of the delta.
C3_StrategySelection ==
  [][ \A i \in CallIds :
        (Resumed(i) /\ calls'[i].result.stored) =>
          LET c == calls[i]
              key == CacheKey(c.modulePath, c.requireContext)
              cached == moduleCache[key]
              r == calls'[i].result
          IN /\ r.scanned <=> (~cached.present \/ ~c.requireContext.delta.present)
             /\ r.scanned =>
                  moduleCache'[key].files
                    = matchFilesWithContext(fs, c.modulePath, c.requireContext)
             /\ ~r.scanned =>
                  SetOf(r.files) \subseteq
                    SetOf(cached.files) \cup SetOf(c.requireContext.delta.addedFiles) ]_vars

\* an empty stored list was patched although a scan would have found files
C3_Witness ==
  \E i \in CallIds :
    LET c == calls[i]
    IN /\ HasStored(c) /\ ~c.result.scanned
       /\ c.requireContext.delta.deletedFiles = {}
       /\ c.result.files = <<>>
       /\ matchFilesWithContext(fs, c.modulePath, c.requireContext) # <<>>

\* C4: after a patch the files of the previous list that were not deleted
\* keep their relative order, every other file of the new list is an added
\* file and comes after them, in the order of the added set; an empty delta
\* leaves the list as it was.
C4_OrderStability ==
  [][ \A i \in CallIds :
        (Resumed(i) /\ calls'[i].result.stored /\ ~calls'[i].result.scanned) =>
          LET c == calls[i]
              old == moduleCache[CacheKey(c.modulePath, c.requireContext)].files
              new == calls'[i].result.files
              d == c.requireContext.delta
              kept == SetOf(old) \ d.deletedFiles
          IN /\ kept \subseteq SetOf(new)
             /\ \A x, y \in kept :
                  PositionIn(old, x) < PositionIn(old, y)
                    => PositionIn(new, x) < PositionIn(new, y)
             /\ \A x \in SetOf(new) \ kept :
                  /\ x \in SetOf(d.addedFiles)
                  /\ \A y \in kept : PositionIn(new, y) < PositionIn(new, x)
                  /\ \A z \in SetOf(new) \ kept :
                       PositionIn(d.addedFiles, x) < PositionIn(d.addedFiles, z)
                         => PositionIn(new, x) < PositionIn(new, z)
             /\ (d.addedFiles = <<>> /\ d.deletedFiles = {}) => new = old ]_vars

\* a list of one kept file followed by two added files, in their order
C4_Witness ==
  \E i \in CallIds :
    LET c == calls[i]
    IN /\ HasStored(c) /\ ~c.result.scanned
       /\ Len(c.result.files) = 3
       /\ Len(c.requireContext.delta.addedFiles) = 2
       /\ c.result.files[2] = c.requireContext.delta.addedFiles[1]
       /\ c.result.files[3] = c.requireContext.delta.addedFiles[2]

\* C9: bundler.transformFile is called with the synthetic path of the
\* context (root + "?ctx=" + hash of the identity key).
C9_TransformPathIsSynthetic ==
  \A i \in CallIds :
    LET c == calls[i]
    IN c.pc = "awaitTransform" =>
         c.result.transformPath
           = appendContextQueryParam(c.modulePath, c.requireContext)

-----------------------------------------------------------------------------
(* The pure functions, each applied to inputs drawn by the initial state   *)

\* the state of the cache and of the calls while a pure function is examined
NothingResolved ==
  /\ fs = {}
  /\ moduleCache = [m \in ModulePaths |-> NotCached]
  /\ calls = [i \in CallIds |-> Idle]

\* the absolute paths of 1 to `depth` segments named in `names`
RECURSIVE PathsOf(_, _)
PathsOf(names, depth) ==
  IF depth = 0 THEN {}
  ELSE {sep \o n : n \in names}
         \cup {p \o sep \o n : p \in PathsOf(names, depth - 1), n \in names}

\* the strings of at most n characters of `chars`
StringsOf(chars, n) == UNION {[1..k -> chars] : k \in 0..n}

(* fileMatchesContext *)

MatchNames == {<<"a">>, <<"f">>, <<".", "f">>, <<".", ".", "f">>}
MatchRootDepth == 2
MatchMaxDepth == 3
MatchRoots == PathsOf({<<"a">>}, MatchRootDepth)
MatchCandidates == PathsOf(MatchNames, MatchMaxDepth)
MatchFilters ==
  { [pattern |-> <<"f">>, flags |-> <<>>],
    [pattern |-> <<"^", "\\", ".", "/", "a">>, flags |-> <<>>],
    [pattern |-> <<"\\", ".", "f", "$">>, flags |-> <<"m">>] }

MatchInit ==
  /\ NothingResolved
  /\ probe \in { [stage |-> "input", inputPath |-> r, testPath |-> t,
                  context |-> [recursive |-> b, filter |-> f], result |-> FALSE] :
                   r \in MatchRoots, t \in MatchCandidates,
                   b \in BOOLEAN, f \in MatchFilters }

MatchFile ==
  /\ probe.stage = "input"
  /\ probe' = [probe EXCEPT !.stage = "done",
                            !.result = fileMatchesContext(probe.inputPath, probe.testPath,
                                                          probe.context)]
  /\ UNCHANGED <<fs, moduleCache, calls>>

SpecMatch == MatchInit /\ [][MatchFile]_vars

\* the candidate lies below the root: the root's segments, then more
IsProperDescendant(root, candidate) ==
  LET r == Segments(root)
      c == Segments(candidate)
  IN Len(c) > Len(r) /\ SubSeq(c, 1, Len(r)) = r

\* the candidate lies in the root directory itself
IsDirectChild(root, candidate) ==
  IsProperDescendant(root, candidate)
    /\ Len(Segments(candidate)) = Len(Segments(root)) + 1

\* the path of a descendant below the root, with the leading "./"
DotSlashRelative(root, candidate) ==
  <<".">> \o sep \o Join(SubSeq(Segments(candidate), Len(Segments(root)) + 1,
                               Len(Segments(candidate))), sep)

\* C5: the matcher refuses every candidate that is not a proper descendant
\* of the root, and, when recursive is false, every candidate in a
\* sub-directory of the root, whatever the filter says.
C5_MatcherRejections ==
  probe.stage = "done" =>
    /\ ~IsProperDescendant(probe.inputPath, probe.testPath) => ~probe.result
    /\ ( /\ ~probe.context.recursive
         /\ IsProperDescendant(probe.inputPath, probe.testPath)
         /\ ~IsDirectChild(probe.inputPath, probe.testPath) ) => ~probe.result

\* a file outside the root is refused although the filter accepts its path
C5_Witness ==
  /\ probe.stage = "done"
  /\ ~IsProperDescendant(probe.inputPath, probe.testPath)
  /\ probe.inputPath # probe.testPath
  /\ RegExpTest(probe.context.filter,
                <<".">> \o sep \o relative(probe.inputPath, probe.testPath))
  /\ ~probe.result

\* C6: for a proper descendant of the root (a direct child when recursive is
\* false), whatever its names, the matcher returns the result of testing
\* the filter against "./" + the path below the root.
C6_MatcherAcceptance ==
  ( /\ probe.stage = "done"
    /\ IsProperDescendant(probe.inputPath, probe.testPath)
    /\ probe.context.recursive \/ IsDirectChild(probe.inputPath, probe.testPath) )
  => probe.result
       = RegExpTest(probe.context.filter,
                    DotSlashRelative(probe.inputPath, probe.testPath))

(* appendContextQueryParam and removeContextQueryParam *)

PathChars == {"/", "?", "c", "t", "x", "="}
MaxPathLen == 5
PathContexts ==
  { [recursive |-> b, filter |-> [pattern |-> <<"f">>, flags |-> <<>>], mode |-> ModeSync] :
      b \in BOOLEAN }

PathInit ==
  /\ NothingResolved
  /\ probe \in { [stage |-> "input", filePath |-> q, context |-> c,
                  virtualFilePath |-> <<>>, filepath |-> <<>>] :
                   q \in StringsOf(PathChars, MaxPathLen), c \in PathContexts }

AppendParam ==
  /\ probe.stage = "input"
  /\ probe' = [probe EXCEPT !.stage = "appended",
                 !.virtualFilePath = appendContextQueryParam(probe.filePath, probe.context)]
  /\ UNCHANGED <<fs, moduleCache, calls>>

RemoveParam ==
  /\ probe.stage = "appended"
  /\ probe' = [probe EXCEPT !.stage = "removed",
                 !.filepath = removeContextQueryParam(probe.virtualFilePath)]
  /\ UNCHANGED <<fs, moduleCache, calls>>

PathNext == AppendParam \/ RemoveParam

SpecPath == PathInit /\ [][PathNext]_vars

\* C7: removeContextQueryParam(appendContextQueryParam(p, c)) = p for every
\* path p that does not contain "?ctx=" and every context c.
C7_PathRoundTrip ==
  (probe.stage = "removed" /\ ~Includes(probe.filePath, CtxMarker))
    => probe.filepath = probe.filePath

\* a path that ends with the first characters of the marker came back whole
C7_Witness ==
  /\ probe.stage = "removed"
  /\ probe.filePath = <<"/", "?", "c", "t", "x">>
  /\ probe.filepath = probe.filePath

(* getContextModuleId *)

AllModes == {ModeSync, ModeEager, ModeLazy, ModeLazyOnce}

IdNames == {<<"a">>, <<"a", " ", "s", "y", "n", "c", " ">>, <<"[">>}
IdMaxDepth == 2
IdRoots == PathsOf(IdNames, IdMaxDepth)
IdFilters ==
  { [pattern |-> q, flags |-> g] :
      q \in { <<"a">>, <<"]">>, <<"[", " ", "s", "y", "n", "c", " ", "/", "]">> },
      g \in {<<>>, <<"m">>} }
IdContexts ==
  { [recursive |-> b, filter |-> f, mode |-> m] :
      b \in BOOLEAN, f \in IdFilters, m \in AllModes }

IdInit ==
  /\ NothingResolved
  /\ probe \in { [stage |-> "input", modulePath |-> r, context |-> c, id |-> <<>>] :
                   r \in IdRoots, c \in IdContexts }

ComputeId ==
  /\ probe.stage = "input"
  /\ probe' = [probe EXCEPT !.stage = "done",
                            !.id = getContextModuleId(probe.modulePath, probe.context)]
  /\ UNCHANGED <<fs, moduleCache, calls>>

SpecId == IdInit /\ [][ComputeId]_vars

\* two requests agree on root, mode, recursive flag and compiled filter
SameIdentity(m1, c1, m2, c2) ==
  /\ m1 = m2
  /\ c1.mode = c2.mode
  /\ c1.recursive = c2.recursive
  /\ RegExpToString(c1.filter) = RegExpToString(c2.filter)

\* C8: getContextModuleId gives two requests the same string exactly when
\* their root, mode, recursive flag and compiled filter are the same.
C8_IdentityInjective ==
  probe.stage = "done" =>
    \A m \in IdRoots, c \in IdContexts :
      (getContextModuleId(m, c) = probe.id)
        <=> SameIdentity(m, c, probe.modulePath, probe.context)

(* getContextModuleTemplate and the module it generates *)

ModeWeak == <<"w", "e", "a", "k">>
GenModes == AllModes \cup {ModeWeak}
GenRoot == <<"/", "a">>
GenFiles ==
  { <<"/", "a", "/", "f">>, <<"/", "a", "/", "s", "/", "f">>, <<"/", "a", "/", ".", "f">> }
GenMaxFiles == 2
GenRequests == { <<".", "/", "f">>, <<".", "/", "s", "/", "f">>, <<".", "/", "g">> }

GenInit ==
  /\ NothingResolved
  /\ probe \in { [stage |-> "input", mode |-> m, modulePath |-> GenRoot, files |-> a,
                  made |-> Thrown(""), request |-> <<>>,
                  outcome |-> [threw |-> FALSE, code |-> "", deferred |-> FALSE,
                               value |-> MapGet(<<>>, <<>>)]] :
                   m \in GenModes, a \in ArraysOf(GenFiles, GenMaxFiles) }

\* the template is generated (or the generation throws)
Generate ==
  /\ probe.stage = "input"
  /\ probe' = [probe EXCEPT !.stage = "generated",
                 !.made = getContextModuleTemplate(
                            probe.mode, probe.modulePath, probe.files,
                            getContextModuleId(probe.modulePath,
                              [recursive |-> TRUE, mode |-> probe.mode,
                               filter |-> [pattern |-> <<"f">>, flags |-> <<>>]]))]
  /\ UNCHANGED <<fs, moduleCache, calls>>

\* a consumer of the bundle calls the generated function
CallContext(request) ==
  /\ probe.stage = "generated"
  /\ ~probe.made.threw
  /\ probe' = [probe EXCEPT !.stage = "called", !.request = request,
                            !.outcome = metroContext(probe.made.value, request)]
  /\ UNCHANGED <<fs, moduleCache, calls>>

GenNext == Generate \/ \E request \in GenRequests : CallContext(request)

SpecGen == GenInit /\ [][GenNext]_vars

\* C10: with no files, in each of the four modes, a module is generated
\* whose keys() is empty and whose lookup function throws an error with the
\* code MODULE_NOT_FOUND for every request.
C10_EmptySet ==
  (probe.stage \in {"generated", "called"} /\ probe.files = <<>> /\ probe.mode \in AllModes)
    => /\ ~probe.made.threw
       /\ metroContextKeys(probe.made.value) = <<>>
       /\ \A request \in GenRequests :
            LET o == metroContext(probe.made.value, request)
            IN o.threw /\ o.code = "MODULE_NOT_FOUND"
       /\ probe.stage = "called"
            => probe.outcome.threw /\ probe.outcome.code = "MODULE_NOT_FOUND"

\* the lookup function of a lazy-once module without files was called
C10_Witness ==
  /\ probe.stage = "called"
  /\ probe.files = <<>>
  /\ probe.mode = ModeLazyOnce
  /\ probe.outcome.threw

\* the generation has run
Generated == probe.stage \in {"generated", "called"}

\* C11: for every mode outside sync, eager, lazy and lazy-once and every
\* file list, empty or not, the generation throws the unsupported-mode error
\* and returns no template.
C11_UnsupportedMode ==
  (Generated /\ probe.mode \notin AllModes)
    => probe.made.threw /\ probe.made.error = "Metro context mode is unimplemented"

\* C14: for a non-empty file list the lookup function returns the table
\* value without a deferred wrapper in mode sync, and wraps its result in a
\* deferred value in each of the modes eager, lazy and lazy-once.
C14_LookupShape ==
  (Generated /\ probe.files # <<>> /\ probe.mode \in AllModes)
    => /\ ~probe.made.threw
       /\ probe.mode = ModeSync => probe.made.value.body = BodyDirect
       /\ probe.mode \in {ModeEager, ModeLazy, ModeLazyOnce}
            => probe.made.value.body = BodyPromise

\* C15: for each of the four modes and every non-empty file list the
\* generation succeeds, and the accessor of every file is `require` of that
\* file in the modes sync and eager and `import` of that file in the modes
\* lazy and lazy-once.
C15_ReferenceExpression ==
  (Generated /\ probe.files # <<>> /\ probe.mode \in AllModes)
    => /\ ~probe.made.threw
       /\ Len(probe.made.value.map) = Len(probe.files)
       /\ \A k \in 1..Len(probe.files) :
            probe.made.value.map[k].get =
              [call |-> IF probe.mode \in {ModeSync, ModeEager}
                        THEN "require" ELSE "import",
               arg |-> probe.files[k]]

\* a lazy-once module of two files was generated
C15_Witness ==
  /\ probe.stage = "generated"
  /\ probe.mode = ModeLazyOnce
  /\ Len(probe.files) = 2
  /\ ~probe.made.threw
  /\ probe.made.value.map[2].get.call = "import"

\* C16: every file of the list that is a proper descendant of the root,
\* whatever its name, is registered under "./" + its path below the root,
\* the string the matcher tests the filter against.
C16_KeyNormalisation ==
  (Generated /\ ~probe.made.threw /\ probe.files # <<>>)
    => \A k \in 1..Len(probe.files) :
         IsProperDescendant(probe.modulePath, probe.files[k])
           => probe.made.value.map[k].key
                = DotSlashRelative(probe.modulePath, probe.files[k])

\* C12: in a module generated with a non-empty table, the lookup function
\* called with a key that is absent from the table raises an error with the
\* code MODULE_NOT_FOUND; it returns no value.
C12_ModuleNotFound ==
  ( /\ probe.stage = "called"
    /\ probe.files # <<>>
    /\ probe.mode \in AllModes
    /\ ~ArrayIncludes(metroContextKeys(probe.made.value), probe.request) )
  => probe.outcome.threw /\ probe.outcome.code = "MODULE_NOT_FOUND"

(* the generated module, loaded and read by a consumer *)

RunFiles == { <<"/", "a", "/", "f">>, <<"/", "a", "/", "g">> }
RunRequests == { <<".", "/", "f">>, <<".", "/", "g">>, <<".", "/", "h">> }
\* largest number of reads of one loaded module
MaxReads == 2

RunInit ==
  /\ NothingResolved
  /\ probe \in { [stage |-> "input", mode |-> m, modulePath |-> GenRoot, files |-> a,
                  fails |-> x, made |-> Thrown(""), reads |-> 0, last |-> "none",
                  evaluated |-> <<>>,
                  request |-> <<>>, keys |-> <<>>,
                  outcome |-> RunAccessor(metroContext(
                                getEmptyContextModuleTemplate(GenRoot, <<>>), <<>>), {})] :
                   m \in AllModes,
                   a \in ArraysOf(RunFiles, Cardinality(RunFiles)) \ {<<>>},
                   x \in SUBSET RunFiles }

\* the module is generated and its text runs: the table is built
LoadModule ==
  /\ probe.stage = "input"
  /\ probe' = [probe EXCEPT !.stage = "loaded",
                 !.made = getContextModuleTemplate(
                            probe.mode, probe.modulePath, probe.files, <<>>),
                 !.evaluated = EvaluatedByDefine(
                                 getContextModuleTemplate(
                                   probe.mode, probe.modulePath, probe.files, <<>>).value.map)]
  /\ UNCHANGED <<fs, moduleCache, calls>>

\* a consumer calls `context(request)`
Lookup(request) ==
  /\ probe.stage = "loaded"
  /\ probe.reads < MaxReads
  /\ probe' = [probe EXCEPT !.reads = @ + 1, !.last = "lookup", !.request = request,
                 !.evaluated = @ \o EvaluatedByRead(probe.made.value.map, request),
                 !.outcome = RunAccessor(metroContext(probe.made.value, request),
                                         probe.fails)]
  /\ UNCHANGED <<fs, moduleCache, calls>>

\* a consumer calls `context.keys()`
ReadKeys ==
  /\ probe.stage = "loaded"
  /\ probe.reads < MaxReads
  /\ probe' = [probe EXCEPT !.reads = @ + 1, !.last = "keys",
                            !.keys = metroContextKeys(probe.made.value)]
  /\ UNCHANGED <<fs, moduleCache, calls>>

RunNext == LoadModule \/ (\E request \in RunRequests : Lookup(request)) \/ ReadKeys

SpecRun == RunInit /\ [][RunNext]_vars

\* the positions of the table whose key is the request
EntriesAt(map, request) == {k \in 1..Len(map) : map[k].key = request}

C18_AccessorLaziness ==
  [][ /\ (probe.stage = "input" /\ probe'.stage = "loaded")
           => probe'.evaluated = <<>>
      /\ (probe.stage = "loaded" /\ probe'.reads = probe.reads + 1
             /\ probe'.last = "lookup")
           => /\ probe'.evaluated =
                   probe.evaluated \o
                     [j \in 1..Cardinality(EntriesAt(probe.made.value.map, probe'.request))
                        |-> probe.files[CHOOSE k \in 1..Len(probe.files) :
                                          probe.made.value.map[k].key = probe'.request]]
              /\ \A k \in EntriesAt(probe.made.value.map, probe'.request) :
                   (probe'.outcome.threw \/ probe'.outcome.rejected)
                     <=> probe.files[k] \in probe.fails
      /\ (probe.stage = "loaded" /\ probe'.reads = probe.reads + 1
             /\ probe'.last = "keys")
           => /\ probe'.evaluated = probe.evaluated
              /\ probe'.keys = [k \in 1..Len(probe.files) |-> probe.made.value.map[k].key]
    ]_vars

\* the same key was read twice while the module of the other key fails
C18_Witness ==
  /\ probe.stage = "loaded"
  /\ probe.reads = 2
  /\ Len(probe.files) = 2
  /\ probe.evaluated = <<probe.files[1], probe.files[1]>>
  /\ probe.fails = {probe.files[2]}
  /\ ~probe.outcome.threw /\ ~probe.outcome.rejected

\* C17: in a resolution that patches a stored list, a path both deleted and
\* added is in the resulting list exactly when it passes fileMatchesContext
\* for the context; a path only deleted is not in it; a path only added that
\* the stored list already holds is in it once.
C17_RemovalsFirst ==
  [][ \A i \in CallIds :
        (Resumed(i) /\ calls'[i].result.stored /\ ~calls'[i].result.scanned) =>
          LET c == calls[i]
              delta == c.requireContext.delta
              cached == moduleCache[CacheKey(c.modulePath, c.requireContext)]
              files == calls'[i].result.files
          IN \A p \in Files :
               /\ (p \in delta.deletedFiles /\ p \in SetOf(delta.addedFiles))
                    => (p \in SetOf(files)
                          <=> fileMatchesContext(c.modulePath, p, c.requireContext))
               /\ (p \in delta.deletedFiles /\ p \notin SetOf(delta.addedFiles))
                    => p \notin SetOf(files)
               /\ ( /\ p \notin delta.deletedFiles
                    /\ p \in SetOf(delta.addedFiles)
                    /\ p \in SetOf(cached.files) )
                    => Cardinality({k \in 1..Len(files) : files[k] = p}) = 1 ]_vars

\* a path deleted and added by the same delta is in the patched list, and
\* another path of that delta was kept without being added again
C17_Witness ==
  \E i \in CallIds :
    LET c == calls[i]
    IN /\ HasStored(c) /\ ~c.result.scanned
       /\ Len(c.requireContext.delta.addedFiles) = 2
       /\ \E p \in c.requireContext.delta.deletedFiles :
            /\ p = c.requireContext.delta.addedFiles[1]
            /\ c.result.files
                 = <<c.requireContext.delta.addedFiles[2], p>>

(* resolutions that fail *)

FailFilters ==
  { [pattern |-> <<"f">>, flags |-> <<>>],
    [pattern |-> <<"[">>, flags |-> <<>>],
    [pattern |-> <<"f">>, flags |-> <<"i", "i">>] }

FailModes == {ModeSync, ModeWeak}

FailRequests == RequestsOf(FailFilters, FailModes, DeltasOf(MaxAdded, MaxDeleted))

FailNext ==
  \E i \in CallIds :
    \/ \E m \in ModulePaths, rc \in FailRequests : Invoke(i, m, rc)
    \/ Resume(i)
    \/ Settle(i)

SpecFail == Init /\ [][FailNext]_vars

\* C19: when the pattern or the flags of the filter do not compile, the
\* resolution is rejected with the error of the construction, neither
\* matchFilesWithContext nor bundler.transformFile is called, and the stored
\* list of every module path is as it was.
C19_InvalidFilter ==
  [][ \A i \in CallIds :
        (Resumed(i) /\ ~RegExpCompiles(calls[i].requireContext.filter)) =>
          /\ calls'[i].pc = "rejected"
          /\ calls'[i].result.error = "SyntaxError"
          /\ ~calls'[i].result.scanned
          /\ calls'[i].result.transformPath = <<>>
          /\ moduleCache' = moduleCache ]_vars

\* a request with a delta and a filter that does not compile was rejected
\* while a list was stored for its path
C19_Witness ==
  \E i \in CallIds :
    LET c == calls[i]
    IN /\ c.pc = "rejected"
       /\ c.result.error = "SyntaxError"
       /\ c.requireContext.delta.present
       /\ c.requireContext.delta.addedFiles # <<>>
       /\ moduleCache[c.modulePath].present
       /\ moduleCache[c.modulePath].files # <<>>

\* C20: a resolution rejected with the unsupported-mode error leaves the
\* stored list of every module path, its own included, as it was before.
C20_UnsupportedModeKeepsCache ==
  [][ \A i \in CallIds :
        ( /\ Resumed(i)
          /\ calls'[i].pc = "rejected"
          /\ calls'[i].result.error = "Metro context mode is unimplemented" )
        => moduleCache' = moduleCache ]_vars

(* two resolutions of one module path in flight *)

TwoCallIds == {1, 2}
TwoPath == <<"/", "a">>
\* largest number of files in the `addedFiles` and in the `deletedFiles` of
\* the deltas of two resolutions in flight
TwoMaxAdded == 1
TwoMaxDeleted == 1

\* the files the two deltas name
TwoFiles == { <<"/", "a", "/", "f">>, <<"/", "a", "/", "s", "/", "f">> }

TwoDeltas ==
  {NoDelta} \cup
  { [present |-> TRUE, addedFiles |-> a, deletedFiles |-> d] :
      a \in ArraysOf(TwoFiles, TwoMaxAdded),
      d \in {x \in SUBSET TwoFiles : Cardinality(x) <= TwoMaxDeleted} }

TwoRequests ==
  { [recursive |-> TRUE, filter |-> [pattern |-> <<"f">>, flags |-> <<>>],
     mode |-> ModeSync, delta |-> d] : d \in TwoDeltas }

TwoInit ==
  /\ fs \in SUBSET TwoFiles
  /\ moduleCache = [m \in ModulePaths |-> NotCached]
  /\ calls = [i \in TwoCallIds |-> Idle]
  /\ probe = <<>>

TwoNext ==
  \E i \in TwoCallIds :
    \/ \E rc \in TwoRequests : Invoke(i, TwoPath, rc)
    \/ Resume(i)
    \/ Settle(i)

SpecTwo == TwoInit /\ [][TwoNext]_vars

\* the files of a stored list that a delta does not delete, in their order
KeptFiles(files, delta) == SelectSeq(files, LAMBDA p : p \notin delta.deletedFiles)

\* C21: with two resolutions of one module path in flight, each resolution
\* reads the stored list, applies its delta and writes the new list in the
\* one step of its resumption: the list it patches is the list stored at
\* that moment (with the update of the resolution that resumed before it),
\* nothing else writes the cache or the other resolution's template, and the
\* template it hands on is generated from the list it has just stored.
C21_NoLostUpdate ==
  [][ /\ moduleCache' # moduleCache => \E i \in TwoCallIds : Resumed(i)
      /\ \A i \in TwoCallIds :
           Resumed(i) =>
             LET c == calls[i]
                 key == CacheKey(c.modulePath, c.requireContext)
                 cached == moduleCache[key]
                 delta == c.requireContext.delta
                 r == calls'[i].result
                 kept == KeptFiles(cached.files, delta)
             IN /\ \A j \in TwoCallIds \ {i} : calls'[j] = calls[j]
                /\ \A m \in ModulePaths \ {key} : moduleCache'[m] = moduleCache[m]
                /\ moduleCache'[key] = [present |-> TRUE, files |-> r.files]
                /\ r.template =
                     getContextModuleTemplate(
                       c.requireContext.mode, c.modulePath, moduleCache'[key].files,
                       getContextModuleId(c.modulePath, c.requireContext)).value
                /\ (cached.present /\ delta.present) =>
                     /\ SetOf(r.files) =
                          SetOf(kept) \cup
                            {p \in SetOf(delta.addedFiles) :
                               fileMatchesContext(c.modulePath, p, c.requireContext)}
                     /\ Len(r.files) = Cardinality(SetOf(r.files))
                     /\ \A k \in 1..Len(kept) : r.files[k] = kept[k] ]_vars

\* both resolutions have resumed and none has settled: the first stored its
\* added file, the second added its own to that list
C21_Witness ==
  /\ calls[1].pc = "awaitTransform" /\ calls[2].pc = "awaitTransform"
  /\ ~calls[1].result.scanned /\ ~calls[2].result.scanned
  /\ calls[1].requireContext.delta.addedFiles = << <<"/", "a", "/", "f">> >>
  /\ calls[2].requireContext.delta.addedFiles = << <<"/", "a", "/", "s", "/", "f">> >>
  /\ calls[1].result.files = << <<"/", "a", "/", "f">> >>
  /\ calls[2].result.files = << <<"/", "a", "/", "f">>, <<"/", "a", "/", "s", "/", "f">> >>
  /\ moduleCache[TwoPath].files = calls[2].result.files
  /\ Len(calls[1].result.template.map) = 1
  /\ Len(calls[2].result.template.map) = 2

====
